---- MODULE Spec2Model ----
(***************************************************************************)
(* A model of therapy_aid_tool/video_parser.py: class VideoParser.          *)
(*                                                                         *)
(* __init__ opens the video, reads its frame count and frame rate and      *)
(* runs bboxes(), which reads total_frames frames one after the other,     *)
(* runs the detection model on each and appends one BBox per class to six  *)
(* lists of a defaultdict(list).  closeness(), interactions() and          *)
(* interactions_statistics() are the methods of a constructed parser.      *)
(*                                                                         *)
(* Python values are modelled as follows.                                  *)
(*   - a dict / defaultdict(list) is a function whose DOMAIN is the set of *)
(*     keys present; reading a missing key of a defaultdict inserts it;    *)
(*   - a float is the exact rational it stands for, [num, den] reduced;    *)
(*   - None, and the type objects int and float that fill the statistics   *)
(*     template, are values of kind "None" and "type";                     *)
(*   - an exception leaving __init__ is pc = "raised": no parser object    *)
(*     exists, so no method of it can run.                                 *)
(***************************************************************************)
EXTENDS Integers, Sequences, FiniteSets, TLC

\* ------------------------------------------------------------------ bounds

\* Largest declared frame count (and largest number of frames in the source).
MaxFrames == 3
\* Largest number of calls of closeness() and of interactions().
MaxCalls == 2
\* Longest boolean series handed directly to interactions_statistics.
MaxLen == 4

\* Frame rates of the videos considered (frames per second, positive).
FpsValues == {2, 3}
\* Values of the constructor's n_classes argument considered (default 6).
NClassesValues == {5, 6, 7}

\* ---------------------------------------------------------------- keys

ClassKeys == <<"td", "ct", "pm", "td_ct_interaction", "td_pm_interaction", "ct_pm_interaction">>
ClassKeySet == {ClassKeys[j] : j \in 1..Len(ClassKeys)}
PairKeys == {"td_ct", "td_pm", "ct_pm"}

\* ---------------------------------------------------------------- dicts

EmptyDict == [x \in {} |-> <<>>]

\* d[key] = v
DictSet(d, key, v) == [x \in (DOMAIN d) \cup {key} |-> IF x = key THEN v ELSE d[x]]

\* defaultdict(list).__getitem__: a missing key is inserted with list().
DDTouch(d, key) == IF key \in DOMAIN d THEN d ELSE DictSet(d, key, <<>>)

\* The value of d[key] on a defaultdict(list).
DDRead(d, key) == IF key \in DOMAIN d THEN d[key] ELSE <<>>

\* d[key].append(v) on a defaultdict(list)
DDAppend(d, key, v) == DictSet(d, key, Append(DDTouch(d, key)[key], v))

\* ------------------------------------------------------------- rationals

RECURSIVE GCD(_, _)
GCD(a, b) == IF b = 0 THEN a ELSE GCD(b, a % b)

\* The rational n/d (n >= 0, d > 0), reduced.
Rat(n, d) == LET g == GCD(n, d) IN [num |-> n \div g, den |-> d \div g]

\* ------------------------------------------------------ values of a field

Num(r) == [kind |-> "num", num |-> r.num, den |-> r.den]
NoneVal == [kind |-> "None", num |-> 0, den |-> 1]
IntType == [kind |-> "type", num |-> 0, den |-> 1]
FloatType == [kind |-> "type", num |-> 1, den |-> 1]

StatFields == {"n_interactions", "total_time", "min_time", "max_time", "mean_time"}

\* ------------------------------------------------ interactions_statistics

\* itertools.groupby(interaction): the maximal runs of equal values, in
\* order, each as <<value, run>>.
RECURSIVE groupby(_)
groupby(s) ==
    IF s = <<>> THEN <<>>
    ELSE LET rest == groupby(Tail(s))
         IN  IF rest # <<>> /\ rest[1][1] = Head(s)
             THEN <<  <<Head(s), <<Head(s)>> \o rest[1][2]>>  >> \o Tail(rest)
             ELSE <<  <<Head(s), <<Head(s)>> >>  >> \o rest

\* Every group, the runs of False too (the test of k left out).
groups_of_interaction_all(groups) == [j \in 1..Len(groups) |-> groups[j][2]]

\* The groups whose key k satisfies k == 1 (True == 1 in Python).
RECURSIVE groups_of_interaction(_)
groups_of_interaction(groups) ==
    IF groups = <<>> THEN <<>>
    ELSE IF groups[1][1] = TRUE
         THEN <<groups[1][2]>> \o groups_of_interaction(Tail(groups))
         ELSE groups_of_interaction(Tail(groups))

\* Python's a < b on lists of bools: lexicographic, False < True, a proper
\* prefix is smaller.
RECURSIVE PyListLess(_, _)
PyListLess(a, b) ==
    IF a = <<>> THEN b # <<>>
    ELSE IF b = <<>> THEN FALSE
    ELSE IF Head(a) = Head(b) THEN PyListLess(Tail(a), Tail(b))
    ELSE (Head(a) = FALSE) /\ (Head(b) = TRUE)

\* max(groups): the first element no later element is greater than.
RECURSIVE PyMaxFrom(_, _)
PyMaxFrom(best, rest) ==
    IF rest = <<>> THEN best
    ELSE PyMaxFrom(IF PyListLess(best, Head(rest)) THEN Head(rest) ELSE best, Tail(rest))

\* The first group in place of the greatest.
PyMax_first(groups) == Head(groups)

PyMax(groups) == PyMaxFrom(Head(groups), Tail(groups))

\* min(groups): the first element no later element is smaller than.
RECURSIVE PyMinFrom(_, _)
PyMinFrom(best, rest) ==
    IF rest = <<>> THEN best
    ELSE PyMinFrom(IF PyListLess(Head(rest), best) THEN Head(rest) ELSE best, Tail(rest))

PyMin(groups) == PyMinFrom(Head(groups), Tail(groups))

\* len(interaction) in place of interaction.count(1).
PyCount1_len(s) == Len(s)

\* interaction.count(1)
RECURSIVE PyCount1(_)
PyCount1(s) ==
    IF s = <<>> THEN 0
    ELSE (IF Head(s) = TRUE THEN 1 ELSE 0) + PyCount1(Tail(s))

\* The statistics template of lines 162-166: every field holds a type object.
StatsTemplate ==
    [key \in PairKeys |->
        [n_interactions |-> IntType, total_time |-> FloatType, min_time |-> FloatType,
         max_time |-> FloatType, mean_time |-> FloatType]]

\* The loop body with zeros in place of None when there is no group.
StatsOfSeries_zero(interaction, rate) ==
    LET groups == groups_of_interaction(groupby(interaction))
    IN  IF groups # <<>>
        THEN LET n == Len(groups)
                 total == PyCount1(interaction)
             IN  [n_interactions |-> Num(Rat(n, 1)),
                  total_time |-> Num(Rat(total, rate)),
                  min_time |-> Num(Rat(Len(PyMin(groups)), rate)),
                  max_time |-> Num(Rat(Len(PyMax(groups)), rate)),
                  mean_time |-> Num(Rat(total, rate * n))]
        ELSE [n_interactions |-> Num(Rat(0, 1)), total_time |-> Num(Rat(0, 1)),
              min_time |-> Num(Rat(0, 1)), max_time |-> Num(Rat(0, 1)),
              mean_time |-> Num(Rat(0, 1))]

\* The body of the loop over interactions.items() for one series
\* (frame_time = 1/fps, so n frames last n/fps).
StatsOfSeries(interaction, rate) ==
    LET groups == groups_of_interaction(groupby(interaction))
    IN  IF groups # <<>>
        THEN LET n == Len(groups)
                 total == PyCount1(interaction)
             IN  [n_interactions |-> Num(Rat(n, 1)),
                  total_time |-> Num(Rat(total, rate)),
                  min_time |-> Num(Rat(Len(PyMin(groups)), rate)),
                  max_time |-> Num(Rat(Len(PyMax(groups)), rate)),
                  mean_time |-> Num(Rat(total, rate * n))]
        ELSE [n_interactions |-> NoneVal, total_time |-> NoneVal, min_time |-> NoneVal,
              max_time |-> NoneVal, mean_time |-> NoneVal]

\* interactions_statistics(interactions): only the keys present in the
\* argument are visited; the others keep the template's type objects.
interactions_statistics(interactions, rate) ==
    [key \in PairKeys |->
        IF key \in DOMAIN interactions
        THEN StatsOfSeries(interactions[key], rate)
        ELSE StatsTemplate[key]]

\* ------------------------------------------------------------------ boxes

\* A raw per-class result of the detector: nothing, or a rectangle.
Absent == [present |-> FALSE, x1 |-> 0, y1 |-> 0, x2 |-> 0, y2 |-> 0]
Box(a, b, c, d) == [present |-> TRUE, x1 |-> a, y1 |-> b, x2 |-> c, y2 |-> d]

\* What the detection model may return for a frame: one raw result per
\* class, in the order of ClassKeys.
Detections ==
    { <<Absent, Absent, Absent, Absent, Absent, Absent>>,
      <<Box(0,0,10,10), Box(5,5,15,15), Absent, Box(5,5,10,10), Absent, Absent>>,
      <<Box(0,0,10,10), Box(2,2,4,4), Box(20,20,30,30), Absent, Box(0,0,2,2), Box(3,3,4,4)>>,
      <<Box(0,0,10,10), Absent, Box(8,0,12,10), Box(1,1,2,2), Box(8,0,10,10), Box(1,1,3,3)>> }

\* preds_from_torch_results(inference, n_classes): n_classes raw results,
\* each tagged with the frame it was inferred from and its place in the list.
preds_from_torch_results(inf, n) ==
    [j \in 1..n |->
        [frame |-> inf.frame, cls |-> j - 1,
         raw |-> IF j <= Len(inf.det) THEN inf.det[j] ELSE Absent]]

\* BBox(pred): the bounding box of a raw result.
BBox(pred) == pred

\* bool(BBox): a box is truthy iff something was detected.
BBoxTruth(bb) == bb.raw.present

Min2(a, b) == IF a <= b THEN a ELSE b
Max2(a, b) == IF a >= b THEN a ELSE b

Area(r) == (r.x2 - r.x1) * (r.y2 - r.y1)

InterArea(a, b) ==
    LET w == Min2(a.x2, b.x2) - Max2(a.x1, b.x1)
        h == Min2(a.y2, b.y2) - Max2(a.y1, b.y1)
    IN  IF w > 0 /\ h > 0 THEN w * h ELSE 0

\* BBox.niou(other): intersection over the smaller area, in [0, 1]; 0 when
\* either box is absent or has no area.
niou(a, b) ==
    IF ~a.raw.present \/ ~b.raw.present \/ Area(a.raw) = 0 \/ Area(b.raw) = 0
    THEN Rat(0, 1)
    ELSE LET m == Min2(Area(a.raw), Area(b.raw))
         IN  Rat(Min2(InterArea(a.raw, b.raw), m), m)

\* ------------------------------------------------ closeness, interactions

\* The loop of closeness(): every bbs[...] is a read of the defaultdict.
RECURSIVE closenessLoop(_, _, _, _)
closenessLoop(idx, n, acc, b) ==
    IF idx >= n THEN [ret |-> acc, bbs |-> b]
    ELSE LET b1 == DDTouch(DDTouch(DDTouch(b, "td"), "ct"), "pm")
             td == b1["td"][idx + 1]
             ct == b1["ct"][idx + 1]
             pm == b1["pm"][idx + 1]
             a1 == DDAppend(acc, "td_ct", niou(td, ct))
             a2 == DDAppend(a1, "td_pm", niou(td, pm))
             a3 == DDAppend(a2, "ct_pm", niou(ct, pm))
         IN  closenessLoop(idx + 1, n, a3, b1)

\* A closeness() that fetches the three actor lists before its loop.
closeness_hoisted(b, n) ==
    closenessLoop(0, n, EmptyDict, DDTouch(DDTouch(DDTouch(b, "td"), "ct"), "pm"))

\* closeness(): what it returns, and self.bbs after the call.
closeness(b, n) == closenessLoop(0, n, EmptyDict, b)

\* The loop of interactions().
RECURSIVE interactionsLoop(_, _, _, _)
interactionsLoop(idx, n, acc, b) ==
    IF idx >= n THEN [ret |-> acc, bbs |-> b]
    ELSE LET b1 == DDTouch(DDTouch(DDTouch(b, "td_ct_interaction"),
                                   "td_pm_interaction"), "ct_pm_interaction")
             a1 == DDAppend(acc, "td_ct", BBoxTruth(b1["td_ct_interaction"][idx + 1]))
             a2 == DDAppend(a1, "td_pm", BBoxTruth(b1["td_pm_interaction"][idx + 1]))
             a3 == DDAppend(a2, "ct_pm", BBoxTruth(b1["ct_pm_interaction"][idx + 1]))
         IN  interactionsLoop(idx + 1, n, a3, b1)

\* interactions(): what it returns, and self.bbs after the call.
interactions(b, n) == interactionsLoop(0, n, EmptyDict, b)

\* ------------------------------------------------------------------ state

VARIABLES
    pc,              \* where the run is: "loop", "infer", "preds", "append",
                     \* "constructed" (__init__ returned), "raised" (it raised)
    total_frames,    \* self.total_frames
    fps,             \* self.fps
    n_classes,       \* self.n_classes
    srcFrames,       \* the frames the video source can deliver
    capPos,          \* the index of the frame self.cap delivers next
    i,               \* the loop variable of bboxes()
    k,               \* how many of the six appends of frame i are done
    frame,           \* the frame of cap.read(): its index, or NoFrame for None
    inference,       \* the model's result for the frame
    preds,           \* the list preds_from_torch_results returned
    local_bbs,       \* the defaultdict bbs of bboxes()
    bbs,             \* self.bbs
    err,             \* the exception that left __init__
    failure,         \* what went wrong in the collection, "none" if nothing
    readLog,         \* the frames cap.read() delivered, in order
    inferLog,        \* the frames the model was invoked on, in order
    closenessRes,    \* what the calls of closeness() returned, in order
    interactionsRes, \* what the calls of interactions() returned, in order
    statsCalled,     \* interactions_statistics was called
    statsArg,        \* its argument
    statistics       \* what it returned

vars == <<pc, total_frames, fps, n_classes, srcFrames, capPos, i, k, frame, inference,
          preds, local_bbs, bbs, err, failure, readLog, inferLog, closenessRes,
          interactionsRes, statsCalled, statsArg, statistics>>

NoFrame == -1
NoInference == [frame |-> NoFrame, det |-> <<>>]

\* __init__ up to the loop of bboxes(): the fields are set from the video
\* and the argument, the capture is at its first frame, bbs is empty.
Init ==
    /\ pc = "loop"
    /\ total_frames \in 0..MaxFrames
    /\ fps \in FpsValues
    /\ n_classes \in NClassesValues
    /\ srcFrames \in 0..MaxFrames
    /\ capPos = 0
    /\ i = 0
    /\ k = 0
    /\ frame = NoFrame
    /\ inference = NoInference
    /\ preds = <<>>
    /\ local_bbs = EmptyDict
    /\ bbs = EmptyDict
    /\ err = "none"
    /\ failure = "none"
    /\ readLog = <<>>
    /\ inferLog = <<>>
    /\ closenessRes = <<>>
    /\ interactionsRes = <<>>
    /\ statsCalled = FALSE
    /\ statsArg = EmptyDict
    /\ statistics = StatsTemplate

fieldVars == <<total_frames, fps, n_classes, srcFrames>>
callVars == <<closenessRes, interactionsRes, statsCalled, statsArg, statistics>>

\* ---------------------------------------------------------------- bboxes

\* An exception propagates out of bboxes() and __init__: self.bbs is never
\* assigned.
Raise(e) ==
    /\ pc' = "raised"
    /\ err' = e

\* A read that drops a frame: the capture advances by two.
ReadOk_skip ==
    /\ pc = "loop" /\ i < total_frames
    /\ capPos + 1 < srcFrames
    /\ frame' = capPos + 1
    /\ capPos' = capPos + 2
    /\ readLog' = Append(readLog, capPos + 1)
    /\ pc' = "infer"
    /\ UNCHANGED <<fieldVars, callVars, i, k, inference, preds, local_bbs, bbs, err,
                   failure, inferLog>>

\* cap.read() delivers the next frame.
ReadOk ==
    /\ pc = "loop" /\ i < total_frames
    /\ capPos < srcFrames
    /\ frame' = capPos
    /\ capPos' = capPos + 1
    /\ readLog' = Append(readLog, capPos)
    /\ pc' = "infer"
    /\ UNCHANGED <<fieldVars, callVars, i, k, inference, preds, local_bbs, bbs, err,
                   failure, inferLog>>

\* cap.read() at the end of the source returns (False, None).
ReadExhausted ==
    /\ pc = "loop" /\ i < total_frames
    /\ capPos >= srcFrames
    /\ frame' = NoFrame
    /\ failure' = "exhausted"
    /\ pc' = "infer"
    /\ UNCHANGED <<fieldVars, callVars, capPos, i, k, inference, preds, local_bbs, bbs,
                   err, readLog, inferLog>>

\* cap.read() cannot decode the next frame and returns (False, None).
ReadDecodeFail ==
    /\ pc = "loop" /\ i < total_frames
    /\ capPos < srcFrames
    /\ frame' = NoFrame
    /\ failure' = "decode"
    /\ pc' = "infer"
    /\ UNCHANGED <<fieldVars, callVars, capPos, i, k, inference, preds, local_bbs, bbs,
                   err, readLog, inferLog>>

\* A missing frame is passed over (continue) instead of raising.
InferNone_skip ==
    /\ pc = "infer"
    /\ frame = NoFrame
    /\ pc' = "loop"
    /\ i' = i + 1
    /\ UNCHANGED <<fieldVars, callVars, capPos, k, frame, inference, preds, local_bbs,
                   bbs, err, failure, readLog, inferLog>>

\* frame[:, :, ::-1] on None raises TypeError before the model is invoked.
InferNone ==
    /\ pc = "infer"
    /\ frame = NoFrame
    /\ Raise("TypeError")
    /\ UNCHANGED <<fieldVars, callVars, capPos, i, k, frame, inference, preds, local_bbs,
                   bbs, failure, readLog, inferLog>>

\* model(frame[:, :, ::-1], size=MODEL_SIZE) returns a detection.
InferOk ==
    /\ pc = "infer"
    /\ frame # NoFrame
    /\ \E d \in Detections : inference' = [frame |-> frame, det |-> d]
    /\ inferLog' = Append(inferLog, frame)
    /\ pc' = "preds"
    /\ UNCHANGED <<fieldVars, callVars, capPos, i, k, frame, preds, local_bbs, bbs, err,
                   failure, readLog>>

\* model(...) raises.
InferFail ==
    /\ pc = "infer"
    /\ frame # NoFrame
    /\ inferLog' = Append(inferLog, frame)
    /\ failure' = "infer"
    /\ Raise("ModelError")
    /\ UNCHANGED <<fieldVars, callVars, capPos, i, k, frame, inference, preds, local_bbs,
                   bbs, readLog>>

\* preds = preds_from_torch_results(inference, self.n_classes)
Preds ==
    /\ pc = "preds"
    /\ preds' = preds_from_torch_results(inference, n_classes)
    /\ k' = 0
    /\ pc' = "append"
    /\ UNCHANGED <<fieldVars, callVars, capPos, i, frame, inference, local_bbs, bbs, err,
                   failure, readLog, inferLog>>

\* bbs[ClassKeys[k]].append(BBox(preds[k])); after the sixth, the next frame.
AppendOk ==
    /\ pc = "append"
    /\ k < Len(preds)
    /\ local_bbs' = DDAppend(local_bbs, ClassKeys[k + 1], BBox(preds[k + 1]))
    /\ IF k + 1 = Len(ClassKeys)
       THEN /\ k' = 0
            /\ i' = i + 1
            /\ pc' = "loop"
       ELSE /\ k' = k + 1
            /\ UNCHANGED <<i, pc>>
    /\ UNCHANGED <<fieldVars, callVars, capPos, frame, inference, preds, bbs, err,
                   failure, readLog, inferLog>>

\* preds[k] with k >= len(preds) raises IndexError.
AppendIndexError ==
    /\ pc = "append"
    /\ k >= Len(preds)
    /\ failure' = "index"
    /\ Raise("IndexError")
    /\ UNCHANGED <<fieldVars, callVars, capPos, i, k, frame, inference, preds, local_bbs,
                   bbs, readLog, inferLog>>

\* BBox(preds[k]) raises: the raw result cannot be converted.
AppendConvertFail ==
    /\ pc = "append"
    /\ k < Len(preds)
    /\ failure' = "convert"
    /\ Raise("ConvertError")
    /\ UNCHANGED <<fieldVars, callVars, capPos, i, k, frame, inference, preds, local_bbs,
                   bbs, readLog, inferLog>>

\* A return inside the loop body: bbs is returned after the first frame.
Return_inloop ==
    /\ pc = "loop" /\ (i >= total_frames \/ i >= 1)
    /\ bbs' = local_bbs
    /\ pc' = "constructed"
    /\ UNCHANGED <<fieldVars, callVars, capPos, i, k, frame, inference, preds, local_bbs,
                   err, failure, readLog, inferLog>>

\* range(self.total_frames) is exhausted: return bbs, and __init__ assigns
\* it to self.bbs (the same object: local_bbs keeps what was returned).
Return ==
    /\ pc = "loop" /\ i >= total_frames
    /\ bbs' = local_bbs
    /\ pc' = "constructed"
    /\ UNCHANGED <<fieldVars, callVars, capPos, i, k, frame, inference, preds, local_bbs,
                   err, failure, readLog, inferLog>>

\* ------------------------------------------------- calls on the parser

Closeness ==
    /\ pc = "constructed"
    /\ Len(closenessRes) < MaxCalls
    /\ LET r == closeness(bbs, total_frames)
       IN  /\ closenessRes' = Append(closenessRes, r.ret)
           /\ bbs' = r.bbs
    /\ UNCHANGED <<fieldVars, pc, capPos, i, k, frame, inference, preds, local_bbs, err,
                   failure, readLog, inferLog, interactionsRes, statsCalled, statsArg,
                   statistics>>

Interactions ==
    /\ pc = "constructed"
    /\ Len(interactionsRes) < MaxCalls
    /\ LET r == interactions(bbs, total_frames)
       IN  /\ interactionsRes' = Append(interactionsRes, r.ret)
           /\ bbs' = r.bbs
    /\ UNCHANGED <<fieldVars, pc, capPos, i, k, frame, inference, preds, local_bbs, err,
                   failure, readLog, inferLog, closenessRes, statsCalled, statsArg,
                   statistics>>

\* interactions_statistics(x) with x a table interactions() returned.
StatsOfInteractions ==
    /\ pc = "constructed"
    /\ interactionsRes # <<>>
    /\ ~statsCalled
    /\ statsCalled' = TRUE
    /\ statsArg' = interactionsRes[Len(interactionsRes)]
    /\ statistics' = interactions_statistics(interactionsRes[Len(interactionsRes)], fps)
    /\ UNCHANGED <<fieldVars, pc, capPos, i, k, frame, inference, preds, local_bbs, bbs,
                   err, failure, readLog, inferLog, closenessRes, interactionsRes>>

Next ==
    \/ ReadOk
    \/ ReadExhausted
    \/ ReadDecodeFail
    \/ InferNone
    \/ InferOk
    \/ InferFail
    \/ Preds
    \/ AppendOk
    \/ AppendIndexError
    \/ AppendConvertFail
    \/ Return
    \/ Closeness
    \/ Interactions
    \/ StatsOfInteractions

Spec == Init /\ [][Next]_vars

\* ------------------------- interactions_statistics on any table of series

BoolSeqs == UNION {[1..n -> BOOLEAN] : n \in 0..MaxLen}

\* The series [T,T,F,T,F,F,T,T,T].
ExampleSeries == <<TRUE, TRUE, FALSE, TRUE, FALSE, FALSE, TRUE, TRUE, TRUE>>

\* The dicts with pair-keys and boolean series a caller may pass: every
\* series of up to MaxLen frames under every set of keys, and the example.
InteractionDicts ==
    UNION {[S -> BoolSeqs] : S \in SUBSET PairKeys}
        \cup {[key \in {"td_ct"} |-> ExampleSeries]}

\* A parser constructed from a video of no frames.
InitStats ==
    /\ pc = "constructed"
    /\ total_frames = 0
    /\ fps \in FpsValues
    /\ n_classes = 6
    /\ srcFrames = 0
    /\ capPos = 0
    /\ i = 0
    /\ k = 0
    /\ frame = NoFrame
    /\ inference = NoInference
    /\ preds = <<>>
    /\ local_bbs = EmptyDict
    /\ bbs = EmptyDict
    /\ err = "none"
    /\ failure = "none"
    /\ readLog = <<>>
    /\ inferLog = <<>>
    /\ closenessRes = <<>>
    /\ interactionsRes = <<>>
    /\ statsCalled = FALSE
    /\ statsArg = EmptyDict
    /\ statistics = StatsTemplate

\* interactions_statistics(x) with x any table of boolean series.
StatsDirect ==
    /\ pc = "constructed"
    /\ ~statsCalled
    /\ \E d \in InteractionDicts :
          /\ statsArg' = d
          /\ statistics' = interactions_statistics(d, fps)
    /\ statsCalled' = TRUE
    /\ UNCHANGED <<fieldVars, pc, capPos, i, k, frame, inference, preds, local_bbs, bbs,
                   err, failure, readLog, inferLog, closenessRes, interactionsRes>>

NextStats == StatsDirect

SpecStats == InitStats /\ [][NextStats]_vars

\* ------------------------------------------------ runs of a boolean series

\* The places where a maximal run of TRUE starts.
RunStarts(s) == {j \in 1..Len(s) : s[j] /\ (j = 1 \/ ~s[j - 1])}

NumRuns(s) == Cardinality(RunStarts(s))

\* The length of the maximal run of TRUE that starts at j.
RunLen(s, j) ==
    CHOOSE m \in 1..(Len(s) - j + 1) :
        /\ \A t \in j..(j + m - 1) : s[t]
        /\ (j + m > Len(s) \/ ~s[j + m])

RunLens(s) == {RunLen(s, j) : j \in RunStarts(s)}

ShortestRun(s) == CHOOSE m \in RunLens(s) : \A x \in RunLens(s) : m <= x
LongestRun(s) == CHOOSE m \in RunLens(s) : \A x \in RunLens(s) : m >= x

TrueFrames(s) == Cardinality({j \in 1..Len(s) : s[j]})

RECURSIVE SumRunLens(_, _)
SumRunLens(s, starts) ==
    IF starts = {} THEN 0
    ELSE LET j == CHOOSE x \in starts : TRUE
         IN  RunLen(s, j) + SumRunLens(s, starts \ {j})

\* n frames at the parser's frame rate, as a statistics value.
Seconds(n) == Num(Rat(n, fps))

AllNone(rec) == \A f \in StatFields : rec[f] = NoneVal
AllNumeric(rec) == \A f \in StatFields : rec[f].kind = "num"

\* ------------------------------------------------------------------ claims

\* C1 (as stated): for every boolean series passed to interactions_statistics
\* under a pair-key, n_interactions is the number of maximal runs of true,
\* zero when there is none.
C1_CountEveryRuns ==
    statsCalled =>
        \A key \in DOMAIN statsArg :
            statistics[key].n_interactions = Num(Rat(NumRuns(statsArg[key]), 1))

\* C1 (amended): for every boolean series with at least one true frame passed
\* under a pair-key, n_interactions is the number of maximal runs of true, a
\* single true frame between false frames being one run; for a series with
\* no true frame it is None, not 0.
C1_CountRuns ==
    statsCalled =>
        \A key \in DOMAIN statsArg :
            statistics[key].n_interactions =
                IF NumRuns(statsArg[key]) > 0
                THEN Num(Rat(NumRuns(statsArg[key]), 1))
                ELSE NoneVal

\* The example [T,T,F,T,F,F,T,T,T] was reduced to 3 episodes, and a lone
\* true frame between false frames to 1.
C1_Witness ==
    /\ statsCalled
    /\ DOMAIN statsArg = {"td_ct"}
    /\ statsArg["td_ct"] = ExampleSeries
    /\ statistics["td_ct"].n_interactions = Num(Rat(3, 1))

\* C2: for every series with at least one true run, min_time and max_time are
\* the lengths of the shortest and of the longest run times the frame
\* duration, whatever the order of the runs and whether or not lengths tie.
C2_MinMax ==
    statsCalled =>
        \A key \in DOMAIN statsArg :
            NumRuns(statsArg[key]) > 0 =>
                /\ statistics[key].min_time = Seconds(ShortestRun(statsArg[key]))
                /\ statistics[key].max_time = Seconds(LongestRun(statsArg[key]))

\* The longest run first, the longest run last, and a tie, in one call.
C2_Witness ==
    /\ statsCalled
    /\ DOMAIN statsArg = PairKeys
    /\ statsArg["td_ct"] = <<TRUE, TRUE, FALSE, TRUE>>
    /\ statsArg["td_pm"] = <<TRUE, FALSE, TRUE, TRUE>>
    /\ statsArg["ct_pm"] = <<TRUE, FALSE, TRUE>>
    /\ statistics["td_ct"].max_time = Seconds(2)
    /\ statistics["td_pm"].min_time = Seconds(1)
    /\ statistics["ct_pm"].min_time = statistics["ct_pm"].max_time

\* C3: for every series with at least one true run, total_time is the number
\* of true frames times the frame duration, which is the sum of the run
\* lengths times the frame duration, and mean_time is total_time over
\* n_interactions; an all-true series of N frames is one episode with
\* total = min = max = mean = N frame durations.
C3_TotalMean ==
    statsCalled =>
        \A key \in DOMAIN statsArg :
            LET s == statsArg[key]
                st == statistics[key]
            IN  NumRuns(s) > 0 =>
                  /\ st.total_time = Seconds(TrueFrames(s))
                  /\ st.total_time = Seconds(SumRunLens(s, RunStarts(s)))
                  /\ st.mean_time = Num(Rat(TrueFrames(s), fps * NumRuns(s)))
                  /\ st.mean_time.num * st.total_time.den * st.n_interactions.num
                        = st.total_time.num * st.mean_time.den
                  /\ (\A j \in 1..Len(s) : s[j]) =>
                        /\ st.n_interactions = Num(Rat(1, 1))
                        /\ st.total_time = Seconds(Len(s))
                        /\ st.min_time = st.total_time
                        /\ st.max_time = st.total_time
                        /\ st.mean_time = st.total_time

\* The example at 2 frames per second: total 3.0 s and mean 1.0 s; and an
\* all-true series beside a series with false frames.
C3_Witness ==
    /\ statsCalled
    /\ fps = 2
    /\ DOMAIN statsArg = {"td_ct"}
    /\ statsArg["td_ct"] = ExampleSeries
    /\ statistics["td_ct"].total_time = Num(Rat(3, 1))
    /\ statistics["td_ct"].mean_time = Num(Rat(1, 1))
    /\ statistics["td_ct"].min_time = Num(Rat(1, 2))
    /\ statistics["td_ct"].max_time = Num(Rat(3, 2))

\* C4: a series with no true run (all false, or empty) passed under a
\* pair-key gets the sentinel None in all five fields, never a number; and
\* None appears in a record only for a series with no true run.
C4_Sentinel ==
    statsCalled =>
        /\ \A key \in DOMAIN statsArg :
              /\ (NumRuns(statsArg[key]) = 0) => AllNone(statistics[key])
              /\ (NumRuns(statsArg[key]) > 0) => AllNumeric(statistics[key])
        /\ \A key \in PairKeys : \A f \in StatFields :
              statistics[key][f] = NoneVal =>
                  (key \in DOMAIN statsArg /\ NumRuns(statsArg[key]) = 0)

\* An empty series, an all-false series and a series with a run, in one call.
C4_Witness ==
    /\ statsCalled
    /\ DOMAIN statsArg = PairKeys
    /\ statsArg["td_ct"] = <<>>
    /\ statsArg["td_pm"] = <<FALSE, FALSE, FALSE>>
    /\ statsArg["ct_pm"] = <<FALSE, TRUE, FALSE>>
    /\ AllNone(statistics["td_ct"])
    /\ AllNone(statistics["td_pm"])
    /\ AllNumeric(statistics["ct_pm"])

\* The six lists of a detection table all have n entries, and entry j of the
\* list of class c was built from result c of the detection of frame j.
TableComplete(t, n) ==
    \A c \in 1..Len(ClassKeys) :
        /\ Len(DDRead(t, ClassKeys[c])) = n
        /\ \A j \in 1..Len(DDRead(t, ClassKeys[c])) :
              /\ t[ClassKeys[c]][j].frame = j - 1
              /\ t[ClassKeys[c]][j].cls = c - 1

\* C5: once bboxes() has returned, each of the six sequences of the table has
\* total_frames entries and entry i of each was built from the detection of
\* frame i.
C5_TableComplete ==
    pc = "constructed" => TableComplete(bbs, total_frames)

\* A table of at least two frames was built.
C5_Witness ==
    /\ pc = "constructed"
    /\ total_frames >= 2
    /\ Len(bbs["ct_pm_interaction"]) = total_frames

\* C6: frames are read in increasing index order, none skipped or read twice;
\* the model is invoked once per frame, after the frame's read and before the
\* next read.
C6_FrameOrder ==
    /\ readLog = [j \in 1..Len(readLog) |-> j - 1]
    /\ Len(inferLog) <= Len(readLog)
    /\ inferLog = SubSeq(readLog, 1, Len(inferLog))
    /\ Len(inferLog) < Len(readLog) =>
          (pc = "infer" /\ frame = readLog[Len(readLog)]
              /\ Len(inferLog) + 1 = Len(readLog))
    /\ pc = "constructed" => Len(inferLog) = total_frames

\* Two frames or more were read and inferred, and the table was returned.
C6_Witness ==
    /\ pc = "constructed"
    /\ Len(readLog) >= 2
    /\ inferLog = readLog

\* The methods of the parser have run or can run.
Exposed ==
    \/ pc = "constructed"
    \/ closenessRes # <<>>
    \/ interactionsRes # <<>>
    \/ statsCalled

C7_State ==
    /\ failure # "none" => (pc = "raised" \/ (pc = "infer" /\ frame = NoFrame))
    /\ pc = "raised" => (err # "none" /\ ~Exposed /\ bbs = EmptyDict)
    /\ srcFrames < total_frames => pc # "constructed"
    /\ Exposed =>
          /\ failure = "none"
          /\ \A c, d \in ClassKeySet : Len(DDRead(bbs, c)) = Len(DDRead(bbs, d))

C7_Step ==
    (failure # "none" \/ pc = "raised") =>
        /\ readLog' = readLog
        /\ inferLog' = inferLog
        /\ local_bbs' = local_bbs
        /\ pc' = "raised"

\* C7: when the source is exhausted before total_frames frames were read, or
\* a frame fails to decode, infer or convert (between two of its six appends
\* too), the collection ends with an exception leaving __init__, no further
\* frame is read or inferred, and no table whose six sequences differ in
\* length is seen by closeness(), interactions() or interactions_statistics().
C7_Abort == []C7_State /\ [][C7_Step]_vars

\* A conversion failed after some but not all of a frame's six appends: the
\* local table's sequences differ in length and __init__ raised.
C7_Witness ==
    /\ pc = "raised"
    /\ failure = "convert"
    /\ i >= 1
    /\ "td" \in DOMAIN local_bbs /\ "ct_pm_interaction" \in DOMAIN local_bbs
    /\ Len(local_bbs["td"]) = Len(local_bbs["ct_pm_interaction"]) + 1

\* C8: when for some frame the detection yields other than six per-class
\* results (n_classes is not 6), the collection raises and no table is
\* produced.
C8_SixResults ==
    (preds # <<>> /\ Len(preds) # Len(ClassKeys)) => pc # "constructed"

\* C9: the record interactions_statistics returns for a table of
\* interactions(), whatever the frame count, holds for each pair-key five
\* numbers or five None, decided by that pair-key's series alone, and no
\* placeholder.
C9_RecordFilled ==
    statsCalled =>
        \A key \in PairKeys :
            /\ AllNumeric(statistics[key]) \/ AllNone(statistics[key])
            /\ statistics[key] = StatsOfSeries(DDRead(statsArg, key), fps)

\* C10: closeness() and interactions() called any number of times in any
\* order return the same results each time, of total_frames entries per
\* pair-key, and leave self.bbs as bboxes() returned it.
C10_Pure ==
    /\ pc = "constructed" => bbs = local_bbs
    /\ \A a, b \in 1..Len(closenessRes) : closenessRes[a] = closenessRes[b]
    /\ \A a, b \in 1..Len(interactionsRes) : interactionsRes[a] = interactionsRes[b]
    /\ \A a \in 1..Len(closenessRes) : \A key \in PairKeys :
          Len(DDRead(closenessRes[a], key)) = total_frames
    /\ \A a \in 1..Len(interactionsRes) : \A key \in PairKeys :
          Len(DDRead(interactionsRes[a], key)) = total_frames

\* Both methods were called twice on a table with frames.
C10_Witness ==
    /\ pc = "constructed"
    /\ total_frames >= 1
    /\ Len(closenessRes) >= 2
    /\ Len(interactionsRes) >= 2
    /\ closenessRes[1] = closenessRes[2]

====
